---- MODULE Spec2Model ----
(***************************************************************************)
(* Model of the music-rnn data preparation scripts:                        *)
(*   compile_midi_token_dataset.py  (vocabulary, tokenizer, dataset loop)  *)
(*   simplify_midis.py              (analyze_midi: instrument roles)       *)
(*   midi_dataset.py                (MIDITokenDataset.__getitem__)         *)
(*                                                                         *)
(* Times are integers in hundredths of a second (0.01 s), so TIME_STEP is  *)
(* 3.  A quotient t / 3 never lies on a half, so Python's round() agrees   *)
(* with exact rounding for every modelled start time.                      *)
(* Scores of analyze_midi are exact rationals <<num, den>>; Python         *)
(* computes them in double precision.  Within the modelled inputs two      *)
(* scores that differ as rationals differ by far more than the rounding    *)
(* error of a double.                                                      *)
(***************************************************************************)
EXTENDS Integers, Sequences, FiniteSets, TLC

VARIABLES
    pc,            \* position in the script / call being modelled
    token2event,   \* compile_midi_token_dataset.token2event
    event2token,   \* compile_midi_token_dataset.event2token
    VOCAB_SIZE,    \* compile_midi_token_dataset.VOCAB_SIZE (0 until assigned)
    loopvar,       \* `pitch` / `shift` of the vocabulary loops
    midi_list,     \* list of (path, genre) from gather_midi_paths()
    genre2idx,     \* genre -> integer map
    pos,           \* number of entries of midi_list the for-loop has handled
    dataset,       \* list of (seq, genre_id)
    failed,        \* list of (path, reason)
    file,          \* the MIDI file handed to the function under study
    result,        \* what the function under study returned / raised
    data_list,     \* MIDITokenDataset.data_list
    seq_len,       \* MIDITokenDataset.seq_len
    get_idx,       \* __getitem__: idx of the last call
    get_start      \* __getitem__: start of the last call that sampled a window

vars == <<pc, token2event, event2token, VOCAB_SIZE, loopvar, midi_list,
          genre2idx, pos, dataset, failed, file, result,
          data_list, seq_len, get_idx, get_start>>

----------------------------------------------------------------------------
(* Program constants *)

TIME_STEP == 3

MAX_PITCH == 127

MAX_SHIFT == 100

MIN_SEQ_LEN == 10

----------------------------------------------------------------------------
(* Generic helpers *)

Max2(a, b) == IF a >= b THEN a ELSE b

Min2(a, b) == IF a <= b THEN a ELSE b

RECURSIVE Digits(_)
\* str(n) for a non-negative integer: its decimal digits, most significant first
Digits(n) == IF n < 10 THEN <<n>> ELSE Append(Digits(n \div 10), n % 10)

RECURSIVE SeqSum(_)
SeqSum(s) == IF s = <<>> THEN 0 ELSE Head(s) + SeqSum(Tail(s))

\* exception / return values of a call
Raise(kind) == [raised |-> TRUE, error |-> kind]

Return(v) == [raised |-> FALSE, value |-> v]

----------------------------------------------------------------------------
(* Step 1: the event vocabulary *)

\* round(t / TIME_STEP): Python 3 rounds halves to even
quantize_time(t) ==
    LET q == t \div TIME_STEP
        r == t % TIME_STEP
    IN  IF 2 * r < TIME_STEP THEN q
        ELSE IF 2 * r > TIME_STEP THEN q + 1
        ELSE IF q % 2 = 0 THEN q ELSE q + 1

\* f"NOTE_ON_{pitch}"
NoteOnName(pitch) == <<"NOTE_ON_", Digits(pitch)>>

\* f"TIME_SHIFT_{shift}"
TimeShiftName(shift) == <<"TIME_SHIFT_", Digits(shift)>>

\* idx = pitch
NoteOnIdx(pitch) == pitch

\* mutant: base = MAX_PITCH
TimeShiftIdx_LowBase(shift) == MAX_PITCH + shift - 1

\* base = MAX_PITCH + 1 ; idx = base + shift - 1
TimeShiftIdx(shift) == (MAX_PITCH + 1) + shift - 1

\* A Python dict is a function from its keys to their values.
EmptyDict == [x \in {} |-> 0]

DictKeys(d) == DOMAIN d

DictGet(d, key) == d[key]

\* d[key] = value : a new key is added, an old key's value is replaced
DictSet(d, key, value) == (key :> value) @@ d

\* the two tables after the statements  token2event[idx] = token ; event2token[token] = idx
VocabAdd(tabs, token, idx) ==
    [t2e |-> DictSet(tabs.t2e, idx, token), e2t |-> DictSet(tabs.e2t, token, idx)]

\* Start of compile_midi_token_dataset.py: both tables empty, first loop at pitch 0
InitScript ==
    /\ pc = "vocab_note_on"
    /\ token2event = EmptyDict
    /\ event2token = EmptyDict
    /\ VOCAB_SIZE = 0
    /\ loopvar = 0
    /\ midi_list = <<>>
    /\ genre2idx = EmptyDict
    /\ pos = 0
    /\ dataset = <<>>
    /\ failed = <<>>
    /\ file = [status |-> "missing", instruments |-> <<>>]
    /\ result = [raised |-> FALSE, value |-> <<>>]
    /\ data_list = <<>>
    /\ seq_len = 0
    /\ get_idx = 0
    /\ get_start = 0

\* one iteration of  for pitch in range(MAX_PITCH + 1)
VocabNoteOn ==
    /\ pc = "vocab_note_on"
    /\ loopvar < MAX_PITCH + 1
    /\ LET tabs == VocabAdd([t2e |-> token2event, e2t |-> event2token],
                            NoteOnName(loopvar), NoteOnIdx(loopvar))
       IN  /\ token2event' = tabs.t2e
           /\ event2token' = tabs.e2t
    /\ IF loopvar + 1 < MAX_PITCH + 1
       THEN loopvar' = loopvar + 1 /\ pc' = pc
       ELSE loopvar' = 1 /\ pc' = "vocab_time_shift"
    /\ UNCHANGED <<data_list, seq_len, get_idx, get_start, VOCAB_SIZE, midi_list, genre2idx, pos, dataset, failed, file, result>>

\* one iteration of  for shift in range(1, MAX_SHIFT + 1)
VocabTimeShift ==
    /\ pc = "vocab_time_shift"
    /\ loopvar < MAX_SHIFT + 1
    /\ LET tabs == VocabAdd([t2e |-> token2event, e2t |-> event2token],
                            TimeShiftName(loopvar), TimeShiftIdx(loopvar))
       IN  /\ token2event' = tabs.t2e
           /\ event2token' = tabs.e2t
    /\ IF loopvar + 1 < MAX_SHIFT + 1
       THEN loopvar' = loopvar + 1 /\ pc' = pc
       ELSE loopvar' = loopvar /\ pc' = "vocab_size"
    /\ UNCHANGED <<data_list, seq_len, get_idx, get_start, VOCAB_SIZE, midi_list, genre2idx, pos, dataset, failed, file, result>>

\* VOCAB_SIZE = MAX_PITCH + 1 + MAX_SHIFT
VocabSize ==
    /\ pc = "vocab_size"
    /\ VOCAB_SIZE' = MAX_PITCH + 1 + MAX_SHIFT
    /\ pc' = "vocab_done"
    /\ UNCHANGED <<data_list, seq_len, get_idx, get_start, token2event, event2token, loopvar, midi_list, genre2idx, pos,
                   dataset, failed, file, result>>

----------------------------------------------------------------------------
(* Step 2: midi_to_token_sequence *)

\* A MIDI file on disk: status is what the validation / parser meets,
\* instruments is pm.instruments of a file that parses.
\* A track is [program, is_drum, notes]; a note is [pitch, start, end].

Note(p, s, e) == [pitch |-> p, start |-> s, end |-> e]

Track(prog, drum, notes) == [program |-> prog, is_drum |-> drum, notes |-> notes]

MidiFile(status, instruments) == [status |-> status, instruments |-> instruments]

RECURSIVE TrackEvents(_)
\* for note in inst.notes: note_events.append((start_bin, note.pitch))
TrackEvents(notes) ==
    IF notes = <<>> THEN <<>>
    ELSE <<<<quantize_time(Head(notes).start), Head(notes).pitch>>>> \o TrackEvents(Tail(notes))

RECURSIVE GatherEvents(_)
\* for inst in pm.instruments: ...   (drum tracks included)
GatherEvents(instruments) ==
    IF instruments = <<>> THEN <<>>
    ELSE TrackEvents(Head(instruments).notes) \o GatherEvents(Tail(instruments))

\* mutant: the sort key is the time bin alone
EventKeyLess_TimeOnly(a, b) == a[1] < b[1]

\* key=lambda x: (x[0], x[1]) : tuple comparison
EventKeyLess(a, b) == a[1] < b[1] \/ (a[1] = b[1] /\ a[2] < b[2])

RECURSIVE InsertEvent(_, _)
\* insert e behind every element whose key is not greater (stable)
InsertEvent(sorted, e) ==
    IF sorted = <<>> THEN <<e>>
    ELSE IF EventKeyLess(e, Head(sorted)) THEN <<e>> \o sorted
    ELSE <<Head(sorted)>> \o InsertEvent(Tail(sorted), e)

RECURSIVE SortEvents(_)
\* note_events.sort(key=...): a stable sort
SortEvents(ev) ==
    IF ev = <<>> THEN <<>>
    ELSE InsertEvent(SortEvents(SubSeq(ev, 1, Len(ev) - 1)), ev[Len(ev)])

\* event2token[name]; a missing key raises KeyError, modelled by the token -1
Lookup(e2t, name) == IF name \in DictKeys(e2t) THEN DictGet(e2t, name) ELSE -1

RECURSIVE EmitGroup(_, _, _, _, _)
\* while i < len(note_events) and note_events[i][0] == bin: append NOTE_ON ; i += 1
\* (i is 1-based here); yields <<i, tokens>>
EmitGroup(e2t, ev, i, bin, tokens) ==
    IF i <= Len(ev) /\ ev[i][1] = bin
    THEN EmitGroup(e2t, ev, i + 1, bin, Append(tokens, Lookup(e2t, NoteOnName(ev[i][2]))))
    ELSE <<i, tokens>>

\* mutant: the cap is one too small
ShiftAmount_OffByOne(delta) == IF delta <= MAX_SHIFT - 1 THEN delta ELSE MAX_SHIFT - 1

\* shift_amount = min(delta, MAX_SHIFT)
ShiftAmount(delta) == Min2(delta, MAX_SHIFT)

RECURSIVE EmitShifts(_, _, _)
\* while delta > 0: append TIME_SHIFT_{shift_amount} ; delta -= shift_amount
EmitShifts(e2t, delta, tokens) ==
    IF delta > 0
    THEN EmitShifts(e2t, delta - ShiftAmount(delta),
                    Append(tokens, Lookup(e2t, TimeShiftName(ShiftAmount(delta)))))
    ELSE tokens

RECURSIVE MainLoop(_, _, _, _, _)
\* while i < len(note_events): ...
MainLoop(e2t, ev, i, prev_bin, tokens) ==
    IF i <= Len(ev)
    THEN LET curr_bin == ev[i][1]
             shifted  == EmitShifts(e2t, curr_bin - prev_bin, tokens)
             grp      == EmitGroup(e2t, ev, i, curr_bin, shifted)
         IN  MainLoop(e2t, ev, grp[1], curr_bin, grp[2])
    ELSE tokens

\* mutant: no separate first group, the walk starts from bin 0
WalkEvents_FromZero(e2t, ev) == MainLoop(e2t, ev, 1, 0, <<>>)

\* the walk over the sorted events (steps 3, 3a, 3b)
WalkEvents(e2t, ev) ==
    LET first == EmitGroup(e2t, ev, 1, ev[1][1], <<>>)
    IN  MainLoop(e2t, ev, first[1], ev[1][1], first[2])

midi_to_token_sequence(e2t, f) ==
    IF f.status = "missing" THEN Raise("FileNotFoundError")
    ELSE IF f.status = "empty" THEN Raise("ValueError: empty")
    ELSE IF f.status = "corrupt" THEN Raise("ValueError: parse")
    ELSE LET note_events == GatherEvents(f.instruments)
         IN  IF note_events = <<>> THEN Return(<<>>)
             ELSE LET tokens == WalkEvents(e2t, SortEvents(note_events))
                  IN  IF \E j \in 1..Len(tokens) : tokens[j] = -1
                      THEN Raise("KeyError")
                      ELSE Return(tokens)

----------------------------------------------------------------------------
(* Specification SpecTok: the vocabulary is built, then                    *)
(* midi_to_token_sequence is called on a file drawn from TokFiles.         *)

MaxNotes == 3

TokPitches == {60, 127}

\* start times (0.01 s) whose bins are 0, 0, 1, 100, 101, 201, 900
TokStarts == {0, 1, 3, 300, 303, 603, 2700}

TokNotes == {Note(p, s, s + 10) : p \in TokPitches, s \in TokStarts}

\* seq = midi_to_token_sequence(path), for a file of one track that path names
TokCall ==
    /\ pc = "vocab_done"
    /\ \E k \in 0..MaxNotes : \E notes \in [1..k -> TokNotes] :
          LET f == MidiFile("ok", <<Track(0, FALSE, notes)>>)
          IN  /\ file' = f
              /\ result' = midi_to_token_sequence(event2token, f)
    /\ pc' = "tok_done"
    /\ UNCHANGED <<data_list, seq_len, get_idx, get_start, token2event, event2token, VOCAB_SIZE, loopvar, midi_list,
                   genre2idx, pos, dataset, failed>>

NextTok == VocabNoteOn \/ VocabTimeShift \/ VocabSize \/ TokCall

SpecTok == InitScript /\ [][NextTok]_vars

----------------------------------------------------------------------------
(* Reading a token sequence back *)

IsNoteOn(tok) == tok \in 0..MAX_PITCH

IsShift(tok) == tok \in (MAX_PITCH + 1)..(MAX_PITCH + MAX_SHIFT)

ShiftValue(tok) == tok - MAX_PITCH

RECURSIVE ShiftRuns(_, _, _)
\* the maximal runs of TIME_SHIFT tokens of toks[i..], as sequences of shift
\* values; inRun says that toks[i-1] is a TIME_SHIFT
ShiftRuns(toks, i, inRun) ==
    IF i > Len(toks) THEN <<>>
    ELSE IF IsShift(toks[i])
         THEN LET rest == ShiftRuns(toks, i + 1, TRUE)
              IN  IF i < Len(toks) /\ IsShift(toks[i + 1])
                  THEN <<(<<ShiftValue(toks[i])>> \o Head(rest))>> \o Tail(rest)
                  ELSE <<(<<ShiftValue(toks[i])>>)>> \o rest
         ELSE ShiftRuns(toks, i + 1, FALSE)

RECURSIVE NoteGroups(_, _)
\* the maximal runs of NOTE_ON tokens of toks[i..], as sequences of pitches
NoteGroups(toks, i) ==
    IF i > Len(toks) THEN <<>>
    ELSE IF IsNoteOn(toks[i])
         THEN LET rest == NoteGroups(toks, i + 1)
              IN  IF i < Len(toks) /\ IsNoteOn(toks[i + 1])
                  THEN <<(<<toks[i]>> \o Head(rest))>> \o Tail(rest)
                  ELSE <<(<<toks[i]>>)>> \o rest
         ELSE NoteGroups(toks, i + 1)

\* all notes of a file, in track order
RECURSIVE AllNotes(_)
AllNotes(instruments) ==
    IF instruments = <<>> THEN <<>>
    ELSE Head(instruments).notes \o AllNotes(Tail(instruments))

NoteBin(n) == quantize_time(n.start)

OccupiedBins(f) ==
    LET notes == AllNotes(f.instruments)
    IN  {quantize_time(notes[j].start) : j \in 1..Len(notes)}

NotesOf(f) ==
    LET notes == AllNotes(f.instruments)
    IN  {notes[j] : j \in 1..Len(notes)}

PitchesAtBin(f, bin) == {n.pitch : n \in {m \in NotesOf(f) : NoteBin(m) = bin}}

RECURSIVE SetToSortedSeq(_)
SetToSortedSeq(S) ==
    IF S = {} THEN <<>>
    ELSE LET m == CHOOSE x \in S : \A y \in S : x <= y
         IN  <<m>> \o SetToSortedSeq(S \ {m})

CeilDiv(a, b) == (a + b - 1) \div b

\* MAX_SHIFT repeated, remainder last
GreedySplit(gap) ==
    [j \in 1..CeilDiv(gap, MAX_SHIFT) |->
        IF j * MAX_SHIFT <= gap THEN MAX_SHIFT ELSE gap - (j - 1) * MAX_SHIFT]

TokDone == pc = "tok_done" /\ file.status = "ok"

\* C1: between the NOTE_ON groups of two consecutive occupied bins the
\* TIME_SHIFT values sum to the gap, each lies in 1..MAX_SHIFT, and there are
\* ceil(gap / MAX_SHIFT) of them: MAX_SHIFT repeated, the remainder last.
C1_ShiftsEncodeGap ==
    (TokDone /\ OccupiedBins(file) # {}) =>
        /\ ~result.raised
        /\ LET bins   == SetToSortedSeq(OccupiedBins(file))
               runs   == ShiftRuns(result.value, 1, FALSE)
               groups == NoteGroups(result.value, 1)
           IN  /\ Len(groups) = Len(bins)
               /\ Len(runs) = Len(bins) - 1
               /\ IsNoteOn(result.value[1])
               /\ \A k \in 1..Len(bins) :
                     {groups[k][j] : j \in 1..Len(groups[k])} = PitchesAtBin(file, bins[k])
               /\ \A k \in 1..(Len(bins) - 1) :
                     LET gap == bins[k + 1] - bins[k]
                     IN  /\ SeqSum(runs[k]) = gap
                         /\ \A j \in 1..Len(runs[k]) : runs[k][j] \in 1..MAX_SHIFT
                         /\ Len(runs[k]) = CeilDiv(gap, MAX_SHIFT)
                         /\ runs[k] = GreedySplit(gap)

\* a gap of more than 2 * MAX_SHIFT bins that is no multiple of MAX_SHIFT was encoded
C1_Witness ==
    /\ TokDone
    /\ ~result.raised
    /\ \E k \in 1..Len(ShiftRuns(result.value, 1, FALSE)) :
          LET run == ShiftRuns(result.value, 1, FALSE)[k]
          IN  Len(run) >= 3 /\ run[Len(run)] < MAX_SHIFT

\* C10: one NOTE_ON token per note (duplicates included); no note gives the
\* empty sequence; one note gives exactly its NOTE_ON token; a non-empty
\* result starts and ends with a NOTE_ON token.
C10_OneNoteOnPerNote ==
    TokDone =>
        /\ ~result.raised
        /\ LET toks  == result.value
               notes == AllNotes(file.instruments)
           IN  /\ Cardinality({j \in 1..Len(toks) : IsNoteOn(toks[j])}) = Len(notes)
               /\ \A j \in 1..Len(toks) : IsNoteOn(toks[j]) \/ IsShift(toks[j])
               /\ \A p \in {notes[j].pitch : j \in 1..Len(notes)}
                           \cup {toks[j] : j \in {i \in 1..Len(toks) : IsNoteOn(toks[i])}} :
                     Cardinality({j \in 1..Len(toks) : toks[j] = NoteOnIdx(p)})
                       = Cardinality({j \in 1..Len(notes) : notes[j].pitch = p})
               /\ (notes = <<>>) => (toks = <<>>)
               /\ (Len(notes) = 1) => (toks = <<NoteOnIdx(notes[1].pitch)>>)
               /\ (toks # <<>>) => (IsNoteOn(toks[1]) /\ IsNoteOn(toks[Len(toks)]))

\* a file with a duplicated note and a later note at another bin was tokenized
C10_Witness ==
    /\ TokDone
    /\ ~result.raised
    /\ LET notes == AllNotes(file.instruments)
       IN  /\ Len(notes) = 3
           /\ notes[1] = notes[2]
           /\ NoteBin(notes[3]) > NoteBin(notes[1])
           /\ NoteBin(notes[1]) > 0

----------------------------------------------------------------------------
(* Specification SpecPerm: the vocabulary is built, then                   *)
(* midi_to_token_sequence is called on a file of several tracks.           *)

MaxPermNotes == 3

MaxPermTracks == 2

PermNotes == {Note(p, s, s + 10) : p \in {60, 64}, s \in {0, 3}}

\* the same note one hundredth of a second later: for PermNotes, in the same bin
Nudged(notes) == [j \in 1..Len(notes) |-> Note(notes[j].pitch, notes[j].start + 1, notes[j].end)]

\* the ways to cut n notes into k consecutive tracks: cut[j] notes lie in tracks 1..j
Cuts(n, k) ==
    {c \in [0..k -> 0..n] : c[0] = 0 /\ c[k] = n /\ \A j \in 1..k : c[j - 1] <= c[j]}

SplitTracks(notes, k, c, drums) ==
    [j \in 1..k |-> Track(0, drums[j], SubSeq(notes, c[j - 1] + 1, c[j]))]

\* seq = midi_to_token_sequence(path), for a file of up to MaxPermTracks tracks
PermCall ==
    /\ pc = "vocab_done"
    /\ \E n \in 0..MaxPermNotes, k \in 0..MaxPermTracks :
          \E notes \in [1..n -> PermNotes], c \in Cuts(n, k), drums \in [1..k -> BOOLEAN] :
             LET f == MidiFile("ok", SplitTracks(notes, k, c, drums))
             IN  /\ file' = f
                 /\ result' = midi_to_token_sequence(event2token, f)
    /\ pc' = "perm_done"
    /\ UNCHANGED <<data_list, seq_len, get_idx, get_start, token2event, event2token, VOCAB_SIZE, loopvar, midi_list,
                   genre2idx, pos, dataset, failed>>

NextPerm == VocabNoteOn \/ VocabTimeShift \/ VocabSize \/ PermCall

SpecPerm == InitScript /\ [][NextPerm]_vars

\* the permutations of 1..n
IndexPerms(n) == {p \in [1..n -> 1..n] : \A i, j \in 1..n : p[i] = p[j] => i = j}

\* every reordering of a sequence
Reorderings(s) == {[i \in 1..Len(s) |-> s[p[i]]] : p \in IndexPerms(Len(s))}

RECURSIVE DecodeEvents(_, _, _)
\* the <<timeBin, pitch>> events a token sequence toks[i..] stands for, from bin `now`
DecodeEvents(toks, i, now) ==
    IF i > Len(toks) THEN <<>>
    ELSE IF IsShift(toks[i]) THEN DecodeEvents(toks, i + 1, now + ShiftValue(toks[i]))
    ELSE <<<<now, toks[i]>>>> \o DecodeEvents(toks, i + 1, now)

CountIn(s, x) == Cardinality({j \in 1..Len(s) : s[j] = x})

SameMultiset(s, t) ==
    /\ Len(s) = Len(t)
    /\ \A j \in 1..Len(s) : CountIn(s, s[j]) = CountIn(t, s[j])

FirstBin(f) == CHOOSE b \in OccupiedBins(f) : \A c \in OccupiedBins(f) : b <= c

PermDone == pc = "perm_done"

\* C7: the token sequence is a function of the multiset of (timeBin, pitch)
\* pairs: every reordering of the file's notes, laid out in one track, gives
\* the same tokens as the file's own layout over its (drum or other) tracks,
\* and so do the notes moved to another start time of the same bin; the
\* tokens stand for the events in ascending (timeBin, pitch) order, NOTE_ON
\* groups being separated by at least one TIME_SHIFT.
C7_OrderIndependent ==
    PermDone =>
        /\ ~result.raised
        /\ \A notes \in Reorderings(AllNotes(file.instruments)) :
              /\ midi_to_token_sequence(event2token, MidiFile("ok", <<Track(0, FALSE, notes)>>))
                   = result
              /\ GatherEvents(<<Track(0, FALSE, Nudged(notes))>>)
                   = GatherEvents(<<Track(0, FALSE, notes)>>)
              /\ midi_to_token_sequence(event2token,
                                        MidiFile("ok", <<Track(0, FALSE, Nudged(notes))>>))
                   = result
        /\ (AllNotes(file.instruments) # <<>>) =>
              LET ev == DecodeEvents(result.value, 1, FirstBin(file))
              IN  /\ SameMultiset(ev, GatherEvents(file.instruments))
                  /\ \A j \in 1..(Len(ev) - 1) :
                        \/ ev[j][1] < ev[j + 1][1]
                        \/ ev[j][1] = ev[j + 1][1] /\ ev[j][2] <= ev[j + 1][2]
                  /\ \A j \in 1..(Len(result.value) - 1) :
                        (IsNoteOn(result.value[j]) /\ IsNoteOn(result.value[j + 1]))
                           => result.value[j] <= result.value[j + 1]

\* a file of two tracks, one a drum track, whose notes are listed against the
\* sorted order (later bin first, higher pitch first) was tokenized
C7_Witness ==
    /\ PermDone
    /\ ~result.raised
    /\ Len(file.instruments) = 2
    /\ file.instruments[1].is_drum # file.instruments[2].is_drum
    /\ file.instruments[1].notes # <<>>
    /\ file.instruments[2].notes # <<>>
    /\ LET notes == AllNotes(file.instruments)
       IN  /\ Len(notes) = 3
           /\ NoteBin(notes[1]) > NoteBin(notes[2])
           /\ NoteBin(notes[2]) = NoteBin(notes[3])
           /\ notes[2].pitch > notes[3].pitch

----------------------------------------------------------------------------
(* Specification SpecVocab: the two vocabulary loops and VOCAB_SIZE.       *)

NextVocab == VocabNoteOn \/ VocabTimeShift \/ VocabSize

SpecVocab == InitScript /\ [][NextVocab]_vars

EventNames ==
    {NoteOnName(p) : p \in 0..MAX_PITCH} \cup {TimeShiftName(sh) : sh \in 1..MAX_SHIFT}

\* C8: once built, token2event and event2token are mutually inverse total
\* maps between the ids 0..227 and the event names; NOTE_ON_p has id p,
\* TIME_SHIFT_s has id 127 + s, the two id ranges are disjoint, and
\* VOCAB_SIZE = 228 is the number of entries of each table.
C8_VocabBijection ==
    (pc = "vocab_done") =>
        /\ DictKeys(token2event) = 0..227
        /\ DictKeys(event2token) = EventNames
        /\ \A id \in 0..227 : DictGet(event2token, DictGet(token2event, id)) = id
        /\ \A name \in EventNames : DictGet(token2event, DictGet(event2token, name)) = name
        /\ \A p \in 0..127 : DictGet(event2token, NoteOnName(p)) = p
        /\ \A sh \in 1..100 : DictGet(event2token, TimeShiftName(sh)) = 127 + sh
        /\ {DictGet(event2token, NoteOnName(p)) : p \in 0..127}
             \cap {DictGet(event2token, TimeShiftName(sh)) : sh \in 1..100} = {}
        /\ VOCAB_SIZE = 228
        /\ Cardinality(DictKeys(token2event)) = VOCAB_SIZE
        /\ Cardinality(DictKeys(event2token)) = VOCAB_SIZE

\* both loops have run and VOCAB_SIZE is assigned
C8_Witness ==
    /\ pc = "vocab_done"
    /\ loopvar = MAX_SHIFT
    /\ VOCAB_SIZE > 0
    /\ NoteOnName(MAX_PITCH) \in DictKeys(event2token)
    /\ TimeShiftName(MAX_SHIFT) \in DictKeys(event2token)

----------------------------------------------------------------------------
(* Specification Spec: compile_midi_token_dataset.py from its first line   *)
(* to the saved dataset: vocabulary, gather_midi_paths(), genre map, the   *)
(* conversion loop.  What a path holds is read when the loop opens it.     *)

MaxFiles == 2

MaxBatchNotes == 2

Genres == {"jazz", "rock"}

\* the genre names in ascending string order
GenreOrder == <<"jazz", "rock">>

\* start times (0.01 s) whose bins are 100, 201, 900
BatchStarts == {300, 603, 2700}

BatchNotes == {Note(60, s, s + 10) : s \in BatchStarts}

FileStatuses == {"ok", "missing", "empty", "corrupt"}

\* os.path.join(dirpath, fn) of the j-th file found; parts[1] is the genre
PathOf(genre, j) == <<"MIDIs", genre, j>>

\* genres = sorted({g for _, g in midi_list})
SortedGenres(list) ==
    SelectSeq(GenreOrder, LAMBDA g : \E j \in 1..Len(list) : list[j][2] = g)

\* genre2idx = {g: i for i, g in enumerate(genres)}
GenreMap(list) ==
    LET genres == SortedGenres(list)
    IN  [g \in {genres[i] : i \in 1..Len(genres)} |->
            (CHOOSE i \in 1..Len(genres) : genres[i] = g) - 1]

\* midi_list = gather_midi_paths() ; genres ; genre2idx
Gather ==
    /\ pc = "vocab_done"
    /\ \E n \in 0..MaxFiles : \E gs \in [1..n -> Genres] :
          LET list == [j \in 1..n |-> <<PathOf(gs[j], j), gs[j]>>]
          IN  /\ midi_list' = list
              /\ genre2idx' = GenreMap(list)
    /\ pc' = "convert"
    /\ UNCHANGED <<data_list, seq_len, get_idx, get_start, token2event, event2token, VOCAB_SIZE, loopvar, pos, dataset,
                   failed, file, result>>

\* mutant: the threshold is one token too low
IsTooShort_OneLess(seq) == Len(seq) < MIN_SEQ_LEN - 1

\* len(seq) < 10
IsTooShort(seq) == Len(seq) < MIN_SEQ_LEN

\* one iteration of  for path, genre in midi_list:  try ... except Exception
ConvertFile ==
    /\ pc = "convert"
    /\ pos < Len(midi_list)
    /\ LET path  == midi_list[pos + 1][1]
           genre == midi_list[pos + 1][2]
       IN  \E status \in FileStatuses, k \in 0..MaxBatchNotes :
           \E notes \in [1..k -> BatchNotes] :
              LET f == MidiFile(status, IF status = "ok" THEN <<Track(0, FALSE, notes)>>
                                                         ELSE <<>>)
                  r == midi_to_token_sequence(event2token, f)
              IN  /\ file' = f
                  /\ result' = r
                  /\ IF r.raised
                     THEN /\ failed' = Append(failed, <<path, r.error>>)
                          /\ dataset' = dataset
                     ELSE IF IsTooShort(r.value)
                     THEN /\ failed' = Append(failed, <<path, "Sequence too short">>)
                          /\ dataset' = dataset
                     ELSE /\ dataset' = Append(dataset, <<r.value, DictGet(genre2idx, genre)>>)
                          /\ failed' = failed
    /\ pos' = pos + 1
    /\ UNCHANGED <<data_list, seq_len, get_idx, get_start, pc, token2event, event2token, VOCAB_SIZE, loopvar, midi_list, genre2idx>>

\* the loop is exhausted: summary line, torch.save(dataset), torch.save(genre2idx)
Save ==
    /\ pc = "convert"
    /\ pos = Len(midi_list)
    /\ pc' = "saved"
    /\ UNCHANGED <<data_list, seq_len, get_idx, get_start, token2event, event2token, VOCAB_SIZE, loopvar, midi_list, genre2idx,
                   pos, dataset, failed, file, result>>

Next == VocabNoteOn \/ VocabTimeShift \/ VocabSize \/ Gather \/ ConvertFile \/ Save

Spec == InitScript /\ [][Next]_vars

FailedPaths == {failed[j][1] : j \in 1..Len(failed)}

\* what holds at every point of the loop and after it
C9_LoopInvariant ==
    (pc \in {"convert", "saved"}) =>
        /\ pos \in 0..Len(midi_list)
        /\ Len(dataset) + Len(failed) = pos
        /\ (pc = "saved") => (pos = Len(midi_list))
        /\ (pc = "convert" /\ pos < Len(midi_list)) => ENABLED ConvertFile
        /\ \A j \in 1..Len(dataset) : Len(dataset[j][1]) >= 10
        /\ Cardinality(FailedPaths) = Len(failed)
        /\ FailedPaths \subseteq {midi_list[j][1] : j \in 1..pos}
        /\ \A j \in 1..Len(failed) :
              failed[j][2] \in {"FileNotFoundError", "ValueError: empty",
                                "ValueError: parse", "Sequence too short"}

\* what one iteration does with the entry it handles
C9_Iteration ==
    (pc = "convert" /\ pos < Len(midi_list)) =>
        /\ pc' = "convert"
        /\ pos' = pos + 1
        /\ midi_list' = midi_list
        /\ result' = midi_to_token_sequence(event2token, file')
        /\ IF result'.raised
           THEN /\ failed' = Append(failed, <<midi_list[pos + 1][1], result'.error>>)
                /\ dataset' = dataset
           ELSE IF Len(result'.value) < 10
           THEN /\ failed' = Append(failed, <<midi_list[pos + 1][1], "Sequence too short">>)
                /\ dataset' = dataset
           ELSE /\ failed' = failed
                /\ Len(dataset') = Len(dataset) + 1
                /\ SubSeq(dataset', 1, Len(dataset)) = dataset
                /\ dataset'[Len(dataset')][1] = result'.value

\* C9: every entry of midi_list is handled exactly once, whatever happened to
\* the entries before it: each iteration appends one entry to failed (the
\* conversion raised, or gave fewer than 10 tokens) or else to dataset, so
\* len(dataset) + len(failed) counts the entries handled, the loop ends only
\* with all entries handled, and dataset holds no sequence under 10 tokens.
C9_EveryFileHandledOnce == []C9_LoopInvariant /\ [][C9_Iteration]_vars

\* the first file failed to convert and the second one was kept
C9_Witness ==
    /\ pc = "saved"
    /\ Len(midi_list) = 2
    /\ Len(failed) = 1
    /\ failed[1][1] = midi_list[1][1]
    /\ failed[1][2] # "Sequence too short"
    /\ Len(dataset) = 1
    /\ Len(dataset[1][1]) = 10

----------------------------------------------------------------------------
(* simplify_midis.py: analyze_midi                                         *)

\* Exact rationals <<numerator, denominator>>, denominator > 0, in lowest terms.

Abs(n) == IF n < 0 THEN -n ELSE n

RECURSIVE GCD(_, _)
GCD(a, b) == IF b = 0 THEN a ELSE GCD(b, a % b)

Rat(n, d) ==
    LET g == GCD(Abs(n), d)
    IN  IF n = 0 THEN <<0, 1>> ELSE <<n \div g, d \div g>>

RInt(n) == <<n, 1>>

RAdd(a, b) == Rat(a[1] * b[2] + b[1] * a[2], a[2] * b[2])

RSub(a, b) == Rat(a[1] * b[2] - b[1] * a[2], a[2] * b[2])

RMul(a, b) == Rat(a[1] * b[1], a[2] * b[2])

\* a / b for b > 0
RDiv(a, b) == Rat(a[1] * b[2], a[2] * b[1])

RLess(a, b) == a[1] * b[2] < b[1] * a[2]

RLeq(a, b) == a[1] * b[2] <= b[1] * a[2]

RECURSIVE RMaxOf(_)
\* max(...) over a non-empty sequence of rationals
RMaxOf(s) ==
    IF Len(s) = 1 THEN s[1]
    ELSE LET m == RMaxOf(Tail(s))
         IN  IF RLess(s[1], m) THEN m ELSE s[1]

RECURSIVE NoteStats(_, _, _)
\* for note in inst.notes: total_pitch, concurrent_notes, prev_end, total_length
NoteStats(notes, j, acc) ==
    IF j > Len(notes) THEN acc
    ELSE NoteStats(notes, j + 1,
            [total_pitch      |-> acc.total_pitch + notes[j].pitch,
             concurrent_notes |-> IF notes[j].start < acc.prev_end
                                  THEN acc.concurrent_notes + 1
                                  ELSE acc.concurrent_notes,
             prev_end         |-> notes[j].end,
             total_length     |-> acc.total_length + (notes[j].end - notes[j].start)])

\* the stats.append({...}) of one instrument with notes; an instrument object
\* is known by its place in pm.instruments
InstStats(instruments, i) ==
    LET inst      == instruments[i]
        num_notes == Len(inst.notes)
        acc       == NoteStats(inst.notes, 1,
                         [total_pitch |-> 0, concurrent_notes |-> 0,
                          prev_end |-> 0, total_length |-> 0])
    IN  [instrument  |-> i,
         program     |-> inst.program,
         num_notes   |-> num_notes,
         avg_pitch   |-> Rat(acc.total_pitch, num_notes),
         concurrency |-> acc.concurrent_notes,
         avg_length  |-> Rat(acc.total_length, num_notes)]

\* mutant: drum tracks are not filtered out
NonDrumIndexes_All(instruments) == [j \in 1..Len(instruments) |-> j]

\* instruments = [inst for inst in pm.instruments if not inst.is_drum]
NonDrumIndexes(instruments) ==
    SelectSeq([j \in 1..Len(instruments) |-> j], LAMBDA j : ~instruments[j].is_drum)

\* 1) first pass: stats of the non-drum instruments that have notes
GatherStats(instruments) ==
    LET withNotes == SelectSeq(NonDrumIndexes(instruments),
                               LAMBDA j : Len(instruments[j].notes) # 0)
    IN  [k \in 1..Len(withNotes) |-> InstStats(instruments, withNotes[k])]

\* x or 1
OrOne(x) == IF x = 0 THEN 1 ELSE x

\* 2) normalization constants (stats is not empty)
MaxNumNotes(stats) == RMaxOf([k \in 1..Len(stats) |-> RInt(stats[k].num_notes)])[1]

MaxConcurrency(stats) == OrOne(RMaxOf([k \in 1..Len(stats) |-> RInt(stats[k].concurrency)])[1])

MaxAvgLength(stats) ==
    LET m == RMaxOf([k \in 1..Len(stats) |-> stats[k].avg_length])
    IN  IF m[1] = 0 THEN RInt(1) ELSE m

\* is_bass_prog = 1 if 33 <= prog <= 40 else 0
IsBassProg(prog) == IF 33 <= prog /\ prog <= 40 THEN 1 ELSE 0

\* 0.5 * is_bass_prog + 0.5 * (127 - avg_pitch) / 127
BassScore(st) ==
    RAdd(RMul(Rat(1, 2), RInt(IsBassProg(st.program))),
         RMul(Rat(1, 2), RDiv(RSub(RInt(127), st.avg_pitch), RInt(127))))

\* 2) the three normalization constants, computed once
NormConstants(stats) ==
    [max_num_notes   |-> MaxNumNotes(stats),
     max_concurrency |-> MaxConcurrency(stats),
     max_avg_length  |-> MaxAvgLength(stats)]

\* w[1] * norm_concurrency + w[2] * norm_avg_length + w[3] * norm_note_count
ChordScore(st, norm, w) ==
    RAdd(RAdd(RMul(w[1], Rat(st.concurrency, norm.max_concurrency)),
              RMul(w[2], RDiv(st.avg_length, norm.max_avg_length))),
         RMul(w[3], Rat(st.num_notes, norm.max_num_notes)))

\* 0.45 * avg_pitch / 127 + 0.45 * (max_concurrency - concurrency) / max_concurrency
\*   + 0.1 * norm_note_count
MelodyScore(st, norm) ==
    RAdd(RAdd(RMul(Rat(45, 100), RDiv(st.avg_pitch, RInt(127))),
              RMul(Rat(45, 100), Rat(norm.max_concurrency - st.concurrency,
                                     norm.max_concurrency))),
         RMul(Rat(1, 10), Rat(st.num_notes, norm.max_num_notes)))

\* chord weights of simplify_midis.py and of inspect_dataset.py
SimplifyChordWeights == <<Rat(5, 10), Rat(4, 10), Rat(1, 10)>>

InspectChordWeights == <<Rat(45, 100), Rat(45, 100), Rat(1, 10)>>

\* 3) results: one record of scores per instrument with notes
ScoreResults(stats, w) ==
    LET norm == NormConstants(stats)
    IN  [k \in 1..Len(stats) |->
            [instrument   |-> stats[k].instrument,
             bass_score   |-> BassScore(stats[k]),
             chord_score  |-> ChordScore(stats[k], norm, w),
             melody_score |-> MelodyScore(stats[k], norm)]]

\* mutant: an entry is put before the entries of equal key (the order of
\* equal keys is reversed, as by an ascending sort read backwards)
InsertDesc_BeforeEqual(sorted, e) ==
    IF \E j \in 1..Len(sorted) : RLeq(sorted[j].key, e.key)
    THEN LET at == CHOOSE j \in 1..Len(sorted) :
                      /\ RLeq(sorted[j].key, e.key)
                      /\ \A i \in 1..(j - 1) : ~RLeq(sorted[i].key, e.key)
         IN  SubSeq(sorted, 1, at - 1) \o <<e>> \o SubSeq(sorted, at, Len(sorted))
    ELSE Append(sorted, e)

\* mutant: ascending order (reverse=True forgotten)
InsertDesc_Ascending(sorted, e) ==
    IF \E j \in 1..Len(sorted) : RLess(e.key, sorted[j].key)
    THEN LET at == CHOOSE j \in 1..Len(sorted) :
                      /\ RLess(e.key, sorted[j].key)
                      /\ \A i \in 1..(j - 1) : ~RLess(e.key, sorted[i].key)
         IN  SubSeq(sorted, 1, at - 1) \o <<e>> \o SubSeq(sorted, at, Len(sorted))
    ELSE Append(sorted, e)

\* put e, which came later in the input, behind every entry whose key is not smaller
InsertDesc(sorted, e) ==
    IF \E j \in 1..Len(sorted) : RLess(sorted[j].key, e.key)
    THEN LET at == CHOOSE j \in 1..Len(sorted) :
                      /\ RLess(sorted[j].key, e.key)
                      /\ \A i \in 1..(j - 1) : ~RLess(sorted[i].key, e.key)
         IN  SubSeq(sorted, 1, at - 1) \o <<e>> \o SubSeq(sorted, at, Len(sorted))
    ELSE Append(sorted, e)

RECURSIVE SortDesc(_)
\* sorted(items, key=..., reverse=True) / list.sort(key=..., reverse=True):
\* descending, entries of equal key keep their order
SortDesc(items) ==
    IF items = <<>> THEN <<>>
    ELSE InsertDesc(SortDesc(SubSeq(items, 1, Len(items) - 1)), items[Len(items)])

\* flattened: (inst, "bass", bass_score), (inst, "melody", ...), (inst, "chords", ...)
Flattened(results) ==
    [m \in 1..(3 * Len(results)) |->
        LET r == results[((m - 1) \div 3) + 1]
        IN  IF (m - 1) % 3 = 0 THEN [inst |-> r.instrument, role |-> "bass", key |-> r.bass_score]
            ELSE IF (m - 1) % 3 = 1
                 THEN [inst |-> r.instrument, role |-> "melody", key |-> r.melody_score]
                 ELSE [inst |-> r.instrument, role |-> "chords", key |-> r.chord_score]]

RECURSIVE GreedyAssign(_, _, _)
\* for inst, role, score in flattened: take the pair if neither its instrument
\* nor its role is used; stop at two
GreedyAssign(flattened, m, assigned) ==
    IF m > Len(flattened) THEN assigned
    ELSE LET c == flattened[m]
         IN  IF /\ \A role \in DictKeys(assigned) : DictGet(assigned, role) # c.inst
                /\ c.role \notin DictKeys(assigned)
             THEN LET now == DictSet(assigned, c.role, c.inst)
                  IN  IF Cardinality(DictKeys(now)) = 2 THEN now
                      ELSE GreedyAssign(flattened, m + 1, now)
             ELSE GreedyAssign(flattened, m + 1, assigned)

\* if n == 2: the two highest-scoring roles across both instruments
AssignTwo(results) == GreedyAssign(SortDesc(Flattened(results)), 1, EmptyDict)

KeyedBy(results, field) ==
    [k \in 1..Len(results) |->
        [inst |-> results[k].instrument,
         key  |-> IF field = "bass" THEN results[k].bass_score
                  ELSE IF field = "melody" THEN results[k].melody_score
                  ELSE results[k].chord_score]]

\* the fixed-order selection; sorted_for_...[0] raises IndexError on an empty list
AssignThree(results) ==
    LET sorted_for_bass == SortDesc(KeyedBy(results, "bass"))
    IN  IF sorted_for_bass = <<>> THEN Raise("IndexError")
        ELSE
        LET bass_inst  == sorted_for_bass[1].inst
            remaining  == SelectSeq(results, LAMBDA r : r.instrument # bass_inst)
            sorted_for_melody == SortDesc(KeyedBy(remaining, "melody"))
        IN  IF sorted_for_melody = <<>> THEN Raise("IndexError")
            ELSE
            LET melody_inst == sorted_for_melody[1].inst
                remaining2  == SelectSeq(remaining, LAMBDA r : r.instrument # melody_inst)
                sorted_for_chord == SortDesc(KeyedBy(remaining2, "chords"))
            IN  IF sorted_for_chord = <<>> THEN Raise("IndexError")
                ELSE Return(DictSet(DictSet(DictSet(EmptyDict, "bass", bass_inst),
                                            "melody", melody_inst),
                                    "chords", sorted_for_chord[1].inst))

\* pm = pretty_midi.PrettyMIDI(path) on a file that is missing, empty or corrupt
ParseError(f) == Raise(IF f.status = "missing" THEN "FileNotFoundError" ELSE "ParseError")

\* simplify_midis.analyze_midi; the roles map to places in pm.instruments
analyze_midi(f) ==
    IF f.status # "ok" THEN ParseError(f)
    ELSE LET instruments == NonDrumIndexes(f.instruments)
         IN  IF Len(instruments) = 1
             THEN Return(DictSet(EmptyDict, "melody", instruments[1]))
             ELSE LET stats == GatherStats(f.instruments)
                  IN  IF stats = <<>> THEN Raise("ValueError: max() arg is an empty sequence")
                      ELSE LET results == ScoreResults(stats, SimplifyChordWeights)
                               n       == Len(results)
                           IN  IF n = 1
                               THEN Return(DictSet(EmptyDict, "melody", results[1].instrument))
                               ELSE IF n = 2 THEN Return(AssignTwo(results))
                               ELSE AssignThree(results)

\* inspect_dataset.analyze_midi: no early return, always the fixed-order selection
inspect_analyze_midi(f) ==
    IF f.status # "ok" THEN ParseError(f)
    ELSE LET stats == GatherStats(f.instruments)
         IN  IF stats = <<>> THEN Raise("ValueError: max() arg is an empty sequence")
             ELSE AssignThree(ScoreResults(stats, InspectChordWeights))

----------------------------------------------------------------------------
(* Specification SpecRoles: one call of simplify_midis.analyze_midi, as    *)
(* simplify_midis() makes it for each path; no state passes between calls. *)

MaxTracks == 4

MaxExampleNotes == 8

\* n notes of one pitch and one length; the first c + 1 start one hundredth
\* of a second apart (so each of them but the first starts before the end of
\* the note before it, when len > 1), the others start where the last ended
NoteRun(n, pitch, len, c) ==
    [j \in 1..n |->
        LET start == IF j <= c + 1 THEN j - 1 ELSE c + len * (j - c - 1)
        IN  Note(pitch, start, start + len)]

RoleTracks ==
    {Track(36, FALSE, NoteRun(1, 40, 2, 0)), Track(36, FALSE, NoteRun(2, 40, 4, 1)),
     Track(80, FALSE, NoteRun(1, 90, 2, 0)), Track(80, FALSE, NoteRun(2, 90, 4, 1)),
     Track(80, FALSE, NoteRun(1, 40, 2, 0)),
     Track(80, FALSE, <<>>), Track(0, TRUE, NoteRun(1, 40, 2, 0))}

ExampleLens == {0, 2, 3, 6}

InitRoles ==
    /\ pc = "analyze"
    /\ token2event = EmptyDict
    /\ event2token = EmptyDict
    /\ VOCAB_SIZE = 0
    /\ loopvar = 0
    /\ midi_list = <<>>
    /\ genre2idx = EmptyDict
    /\ pos = 0
    /\ dataset = <<>>
    /\ failed = <<>>
    /\ file = [status |-> "missing", instruments |-> <<>>]
    /\ result = [raised |-> FALSE, value |-> <<>>]
    /\ data_list = <<>>
    /\ seq_len = 0
    /\ get_idx = 0
    /\ get_start = 0

\* results = analyze_midi(path), for a file of up to MaxTracks tracks
AnalyzeCall ==
    /\ pc = "analyze"
    /\ \E n \in 0..MaxTracks : \E tracks \in [1..n -> RoleTracks] :
          LET f == MidiFile("ok", tracks)
          IN  /\ file' = f
              /\ result' = analyze_midi(f)
    /\ pc' = "analyze_done"
    /\ UNCHANGED <<data_list, seq_len, get_idx, get_start, token2event, event2token, VOCAB_SIZE, loopvar, midi_list,
                   genre2idx, pos, dataset, failed>>

\* results = analyze_midi(path), for a file of two tracks: a bass-program track
\* of pitch 40 without overlaps and a program-80 track of pitch 90 with 5 overlaps
AnalyzeExample ==
    /\ pc = "analyze"
    /\ \E nA \in 1..MaxExampleNotes, nB \in 6..MaxExampleNotes :
       \E lenA \in ExampleLens, lenB \in ExampleLens \ {0}, aFirst \in BOOLEAN :
          LET a == Track(36, FALSE, NoteRun(nA, 40, lenA, 0))
              b == Track(80, FALSE, NoteRun(nB, 90, lenB, 5))
              f == MidiFile("ok", IF aFirst THEN <<a, b>> ELSE <<b, a>>)
          IN  /\ file' = f
              /\ result' = analyze_midi(f)
    /\ pc' = "analyze_done"
    /\ UNCHANGED <<data_list, seq_len, get_idx, get_start, token2event, event2token, VOCAB_SIZE, loopvar, midi_list,
                   genre2idx, pos, dataset, failed>>

NextRoles == AnalyzeCall \/ AnalyzeExample

SpecRoles == InitRoles /\ [][NextRoles]_vars

\* the eligible tracks of a file: not a drum track, at least one note
Eligible(f) ==
    {j \in 1..Len(f.instruments) :
        ~f.instruments[j].is_drum /\ f.instruments[j].notes # <<>>}

AnalyzeDone == pc = "analyze_done" /\ file.status = "ok"

\* the scores analyze_midi computes: eligible track |-> (role |-> score)
ScoreTable(f, w) ==
    LET results == ScoreResults(GatherStats(f.instruments), w)
    IN  [j \in {results[k].instrument : k \in 1..Len(results)} |->
            LET r == results[CHOOSE k \in 1..Len(results) : results[k].instrument = j]
            IN  [bass |-> r.bass_score, melody |-> r.melody_score, chords |-> r.chord_score]]

\* the earliest track of cands whose score for role is the maximum over cands
EarliestBest(sc, cands, role) ==
    CHOOSE j \in cands :
        /\ \A i \in cands : RLeq(sc[i][role], sc[j][role])
        /\ \A i \in cands : (i < j) => RLess(sc[i][role], sc[j][role])

\* roles is the assignment the fixed-order rule is said to make: bass the
\* earliest best by bass score, melody the earliest best of the others, chords
\* the earliest best of the rest
IsFixedOrderRoles(f, w, roles) ==
    \A sc \in {ScoreTable(f, w)} :
    \A b \in {EarliestBest(sc, Eligible(f), "bass")} :
    \A m \in {EarliestBest(sc, Eligible(f) \ {b}, "melody")} :
    \A c \in {EarliestBest(sc, Eligible(f) \ {b, m}, "chords")} :
       roles = [bass |-> b, melody |-> m, chords |-> c]

\* the statistics of the example: program, average pitch, overlap count
HasStats(f, j, prog, avgPitch, conc) ==
    LET st == InstStats(f.instruments, j)
    IN  st.program = prog /\ st.avg_pitch = RInt(avgPitch) /\ st.concurrency = conc

ExampleA(f) == CHOOSE j \in 1..2 : HasStats(f, j, 36, 40, 0)

ExampleB(f) == CHOOSE j \in 1..2 : HasStats(f, j, 80, 90, 5)

IsExample(f) ==
    /\ Len(f.instruments) = 2
    /\ Eligible(f) = {1, 2}
    /\ \E j \in 1..2 : HasStats(f, j, 36, 40, 0) /\ HasStats(f, 3 - j, 80, 90, 5)

\* C2 as claimed: the example's track A is the bass and its track B the melody
C2_ExampleBassMelody ==
    (AnalyzeDone /\ IsExample(file)) =>
        /\ ~result.raised
        /\ result.value = [bass |-> ExampleA(file), melody |-> ExampleB(file)]

\* C2, amended: the example's track A is the bass and its track B the chords,
\* whatever the note counts and note lengths of the two tracks
C2_ExampleBassChords ==
    (AnalyzeDone /\ IsExample(file)) =>
        /\ ~result.raised
        /\ result.value = [bass |-> ExampleA(file), chords |-> ExampleB(file)]

\* the example was analyzed with B listed first, A having more and longer notes
C2_Witness ==
    /\ AnalyzeDone
    /\ IsExample(file)
    /\ ExampleB(file) = 1
    /\ Len(file.instruments[2].notes) > Len(file.instruments[1].notes)
    /\ ~result.raised

\* C3 as claimed: with no eligible track analyze_midi raises
C3_NoEligibleFails ==
    (AnalyzeDone /\ Eligible(file) = {}) => result.raised

\* C4: with 3 or more eligible tracks the result has exactly the keys bass,
\* melody, chords; bass is the earliest track of maximum bass score, melody
\* the earliest of maximum melody score among the others, chords the earliest
\* of maximum chord score among the rest (so the three are distinct input
\* tracks).  The same holds of inspect_dataset.analyze_midi with its weights.
C4_FixedOrderSelection ==
    (AnalyzeDone /\ Cardinality(Eligible(file)) >= 3) =>
        /\ ~result.raised
        /\ IsFixedOrderRoles(file, SimplifyChordWeights, result.value)
        /\ \A other \in {inspect_analyze_midi(file)} :
              ~other.raised /\ IsFixedOrderRoles(file, InspectChordWeights, other.value)
        /\ DictKeys(result.value) = {"bass", "melody", "chords"}
        /\ Cardinality({result.value[role] : role \in DictKeys(result.value)}) = 3
        /\ \A role \in DictKeys(result.value) : result.value[role] \in Eligible(file)

\* at least 3 eligible tracks, two of them with the same bass score: the
\* earlier one is the bass, the later one is passed over for melody and is
\* the chords
C4_Witness ==
    /\ AnalyzeDone
    /\ Cardinality(Eligible(file)) >= 3
    /\ ~result.raised
    /\ \E i, j \in Eligible(file) :
          /\ i < j
          /\ ScoreTable(file, SimplifyChordWeights)[i].bass
               = ScoreTable(file, SimplifyChordWeights)[j].bass
          /\ result.value["bass"] = i
          /\ result.value["melody"] # j
          /\ result.value["chords"] = j

Roles == {"bass", "melody", "chords"}

\* C5: with exactly 2 eligible tracks the result has 2 entries, two roles for
\* the two tracks; one entry has the highest of the 6 scores, the other the
\* highest score among the combinations of the other track with another role
\* (the combinations passed over share the track or the role of the first).
C5_TwoTrackGreedy ==
    (AnalyzeDone /\ Cardinality(Eligible(file)) = 2) =>
        /\ ~result.raised
        /\ Cardinality(DictKeys(result.value)) = 2
        /\ DictKeys(result.value) \subseteq Roles
        /\ {result.value[role] : role \in DictKeys(result.value)} = Eligible(file)
        /\ \A sc \in {ScoreTable(file, SimplifyChordWeights)} :
               \E r1 \in DictKeys(result.value) : \E r2 \in DictKeys(result.value) \ {r1} :
                  LET t1 == result.value[r1]
                      t2 == result.value[r2]
                  IN  /\ t1 # t2
                      /\ \A t \in Eligible(file), r \in Roles : RLeq(sc[t][r], sc[t1][r1])
                      /\ \A t \in Eligible(file) \ {t1}, r \in Roles \ {r1} :
                            RLeq(sc[t][r], sc[t2][r2])

\* two eligible tracks beside a drum track; the best score is a chords score,
\* and the other track's best score has the same role, so it gets another
C5_Witness ==
    /\ AnalyzeDone
    /\ Cardinality(Eligible(file)) = 2
    /\ Len(file.instruments) = 3
    /\ ~result.raised
    /\ "chords" \in DictKeys(result.value)
    /\ LET t1 == result.value["chords"]
           t2 == CHOOSE t \in Eligible(file) : t # t1
           sc == ScoreTable(file, SimplifyChordWeights)
       IN  /\ \A t \in Eligible(file), r \in Roles : RLeq(sc[t][r], sc[t1]["chords"])
           /\ \A r \in Roles : RLeq(sc[t2][r], sc[t2]["chords"])
           /\ RLess(sc[t2]["bass"], sc[t2]["chords"])

\* C6: with exactly 1 eligible track, whatever drum tracks and note-less
\* tracks are beside it, the result is the one entry melody |-> that track
C6_SingleTrackMelody ==
    (AnalyzeDone /\ Cardinality(Eligible(file)) = 1) =>
        /\ ~result.raised
        /\ result.value = [melody |-> CHOOSE j \in Eligible(file) : TRUE]

\* one eligible track behind a drum track and a note-less track
C6_Witness ==
    /\ AnalyzeDone
    /\ Eligible(file) = {3}
    /\ file.instruments[1].is_drum
    /\ ~file.instruments[2].is_drum
    /\ ~result.raised

----------------------------------------------------------------------------
(* Specification SpecData: a MIDITokenDataset(data_list, seq_len) of       *)
(* midi_dataset.py and the calls of its __getitem__.  np.array(seq,        *)
(* dtype=np.int64) and torch.from_numpy keep the elements and their order; *)
(* token ids are below 2^63.                                               *)

MaxTokens == 6

MaxItems == 2

MaxSeqLen == 4

\* a stored token sequence of n tokens, all different, the first one 0
StoredSeq(n) == [i \in 1..n |-> ((i - 1) * 37) % 228]

\* (token_seq, genre_id) pairs: one of each length, of two genres
DataEntries == {<<StoredSeq(n), n % 2>> : n \in 0..MaxTokens}

\* s[a:b] for 0 <= a: the slice stops at the end of s
PySlice(s, a, b) == SubSeq(s, a + 1, Min2(b, Len(s)))

\* [0] * n  (the empty list for n <= 0)
Zeros(n) == [i \in 1..n |-> 0]

\* np.random.randint(low, high): low <= value < high
RandInt(low, high) == low..(high - 1)

\* mutant: the upper limit is taken as inclusive, as by random.randint
RandomStarts_Inclusive(L, seqlen) == 0..(L - seqlen)

\* np.random.randint(0, L - self.seq_len)
RandomStarts(L, seqlen) == RandInt(0, L - seqlen)

\* train_ds = MIDITokenDataset(train_list, seq_len=...): the object exists
InitData ==
    /\ pc = "ds_ready"
    /\ token2event = EmptyDict
    /\ event2token = EmptyDict
    /\ VOCAB_SIZE = 0
    /\ loopvar = 0
    /\ midi_list = <<>>
    /\ genre2idx = EmptyDict
    /\ pos = 0
    /\ dataset = <<>>
    /\ failed = <<>>
    /\ file = [status |-> "missing", instruments |-> <<>>]
    /\ result = [raised |-> FALSE, value |-> <<>>]
    /\ \E n \in 1..MaxItems : data_list \in [1..n -> DataEntries]
    /\ seq_len \in 1..MaxSeqLen
    /\ get_idx = 0
    /\ get_start = 0

\* x, y, genre = self[i]  for 0 <= i < len(self)
GetItem ==
    /\ pc \in {"ds_ready", "ds_item"}
    /\ \E i \in 0..(Len(data_list) - 1) :
          LET token_seq == data_list[i + 1][1]
              genre_id  == data_list[i + 1][2]
              L         == Len(token_seq)
          IN  \E s \in IF L <= seq_len THEN {get_start} ELSE RandomStarts(L, seq_len) :
                 LET seq == IF L <= seq_len
                            THEN Zeros(seq_len + 1 - L) \o token_seq
                            ELSE PySlice(token_seq, s, s + seq_len + 1)
                 IN  /\ get_idx' = i
                     /\ get_start' = s
                     /\ result' = Return([x |-> PySlice(seq, 0, Len(seq) - 1),
                                          y |-> PySlice(seq, 1, Len(seq)),
                                          genre_id |-> genre_id])
    /\ pc' = "ds_item"
    /\ UNCHANGED <<data_list, seq_len, token2event, event2token, VOCAB_SIZE, loopvar,
                   midi_list, genre2idx, pos, dataset, failed, file>>

NextData == GetItem

SpecData == InitData /\ [][NextData]_vars

\* the item the last call returned is right for the sequence it was asked for
ItemShape ==
    LET token_seq == data_list[get_idx + 1][1]
        n         == Len(token_seq)
        L         == seq_len
        x         == result.value.x
        y         == result.value.y
        window    == x \o <<y[L]>>
    IN  /\ ~result.raised
        /\ Len(x) = L
        /\ Len(y) = L
        /\ \A i \in 1..(L - 1) : y[i] = x[i + 1]
        /\ result.value.genre_id = data_list[get_idx + 1][2]
        /\ (n <= L) => (window = Zeros(L + 1 - n) \o token_seq)
        /\ (n > L) => /\ get_start \in 0..(n - L - 1)
                      /\ get_start + L + 1 <= n
                      /\ window = [i \in 1..(L + 1) |-> token_seq[get_start + i]]

\* every start index from 0 to n - L - 1 can be the next call's choice
EveryStartPossible ==
    \A i \in 0..(Len(data_list) - 1) :
        LET n == Len(data_list[i + 1][1])
        IN  (n > seq_len) =>
               \A s \in 0..(n - seq_len - 1) : ENABLED (GetItem /\ get_idx' = i /\ get_start' = s)

\* C11: __getitem__ returns x and y of length seq_len with y[i] = x[i+1]; the
\* window x + [y[-1]] is the whole sequence behind seq_len + 1 - n zeros when
\* n <= seq_len, and otherwise the seq_len + 1 tokens from a start index in
\* 0..n-seq_len-1, inside the sequence; each of these start indexes, the last
\* one included, can be chosen.
C11_WindowOfSequence ==
    /\ (pc = "ds_item") => ItemShape
    /\ (pc \in {"ds_ready", "ds_item"}) => EveryStartPossible

\* a call sampled the last window of a sequence: it starts past index 0 and
\* its last token is the last token of the sequence
C11_Witness ==
    /\ pc = "ds_item"
    /\ Len(data_list[get_idx + 1][1]) > seq_len + 1
    /\ get_start = Len(data_list[get_idx + 1][1]) - seq_len - 1
    /\ result.value.y[seq_len] = data_list[get_idx + 1][1][Len(data_list[get_idx + 1][1])]

\* a call padded a sequence shorter than seq_len
C11_PaddedReached ==
    /\ pc = "ds_item"
    /\ Len(data_list[get_idx + 1][1]) < seq_len
    /\ result.value.x[1] = 0

====
